---------------------------- MODULE Spec2Model ----------------------------
(***************************************************************************)
(* The OpenWeather MCP gateway: src/mcp_server.py (stdio server, blocking  *)
(* tools) and src/http/mcp_server.py (streamable-http server, async        *)
(* tools).  The module models the geocode cache, the tool invocations as   *)
(* they suspend at their two network requests, and the response            *)
(* formatters as operators over JSON-like values.                          *)
(*                                                                         *)
(* Text is a sequence of string fragments; its value is the concatenation  *)
(* of the fragments.  Text that str.strip() inspects is kept one character *)
(* per fragment.  The degree sign of the source is written "deg".          *)
(***************************************************************************)
EXTENDS Integers, Sequences, FiniteSets, TLC

VARIABLES variant, cache, inv, geoCalls, dataCalls, overlapped, fmt

vars == <<variant, cache, inv, geoCalls, dataCalls, overlapped, fmt>>

gatewayVars == <<variant, cache, inv, geoCalls, dataCalls, overlapped>>

(***************************************************************************)
(* Bounds of the model.                                                    *)
(***************************************************************************)
\* concurrent (http) or successive (stdio) tool invocations
MaxInv == 2
\* entries in a forecast "list"
MaxEntries == 3
\* keys in a "components" object
MaxComps == 3
\* largest limit / slots argument tried (the smallest is -MaxLimit)
MaxLimit == 3

(***************************************************************************)
(* JSON values: <<tag, content>>.                                         *)
(***************************************************************************)
Missing == <<"missing", <<>>>>

Null == <<"null", <<>>>>

Tag(x) == x[1]

Val(x) == x[2]

\* d.get(k) of a JSON object's content: Missing for a key it lacks
Field(r, k) == IF k \in DOMAIN r THEN r[k] ELSE Missing

Str(s) == <<"str", s>>

Num(n) == <<"num", n>>

Obj(r) == <<"obj", r>>

List(s) == <<"list", s>>

IntVal(n) == <<"int", n>>

(***************************************************************************)
(* What a function call ends with: a returned text or a raised exception.  *)
(***************************************************************************)
NoResult == [kind |-> "none", text |-> <<>>]

Return(text) == [kind |-> "return", text |-> text]

Raise(exc) == [kind |-> "raise", text |-> <<exc>>]

(***************************************************************************)
(* Python string operations.                                               *)
(***************************************************************************)
Digits == <<"0", "1", "2", "3", "4", "5", "6", "7", "8", "9">>

RECURSIVE NatStr(_)
\* str(n) of a natural number, one character per fragment
NatStr(n) == IF n < 10 THEN <<Digits[n + 1]>>
             ELSE NatStr(n \div 10) \o <<Digits[(n % 10) + 1]>>

\* str(n) of an integer
IntStr(n) == IF n < 0 THEN <<"-">> \o NatStr(0 - n) ELSE NatStr(n)

\* str(x) of a float with one decimal, x given in tenths (152 is 15.2)
FloatStr(x) == IF x < 0 THEN <<"-">> \o NatStr((0 - x) \div 10) \o <<".">> \o NatStr((0 - x) % 10)
               ELSE NatStr(x \div 10) \o <<".">> \o NatStr(x % 10)

\* f"{v:.2f}" of a non-negative number given in thousandths (1234 is 1.234);
\* the values used are no rounding ties
Fmt2f(v) == LET h == (v + 5) \div 10
            IN  NatStr(h \div 100) \o <<".", Digits[((h \div 10) % 10) + 1], Digits[(h % 10) + 1]>>

RECURSIVE LStrip(_, _)
LStrip(s, chars) == IF s # <<>> /\ Head(s) \in chars THEN LStrip(Tail(s), chars) ELSE s

RECURSIVE RStrip(_, _)
RStrip(s, chars) == IF s # <<>> /\ s[Len(s)] \in chars
                    THEN RStrip(SubSeq(s, 1, Len(s) - 1), chars) ELSE s

\* s.strip(chars): drops every leading and trailing character that is in chars
Strip(s, chars) == RStrip(LStrip(s, chars), chars)

RECURSIVE Join(_, _)
\* sep.join(parts)
Join(parts, sep) == IF parts = <<>> THEN <<>>
                    ELSE IF Len(parts) = 1 THEN parts[1]
                    ELSE parts[1] \o sep \o Join(Tail(parts), sep)

\* s[:limit] of a Python list: a negative limit counts from the end
SliceTo(s, limit) == IF limit >= 0
                     THEN SubSeq(s, 1, IF limit < Len(s) THEN limit ELSE Len(s))
                     ELSE SubSeq(s, 1, IF Len(s) + limit > 0 THEN Len(s) + limit ELSE 0)

\* str.upper() on the pollutant keys
Upper(k) == CASE k = "pm2_5" -> "PM2_5"
              [] k = "pm10" -> "PM10"
              [] k = "no2" -> "NO2"
              [] k = "o3" -> "O3"
              [] k = "so2" -> "SO2"
              [] k = "co" -> "CO"
              [] k = "nh3" -> "NH3"
              [] k = "no" -> "NO"
              [] OTHER -> k

\* f"{x}" of a JSON value
Render(x) == CASE Tag(x) = "str" -> Val(x)
               [] Tag(x) = "num" -> FloatStr(Val(x))
               [] Tag(x) = "null" -> <<"N", "o", "n", "e">>
               [] OTHER -> <<"?">>

\* f"{x}" of a JSON integer
RenderInt(x) == IF Tag(x) = "int" THEN IntStr(Val(x)) ELSE Render(x)

(***************************************************************************)
(* Response normalizer.  A payload j is the JSON object of a provider      *)
(* response: [name, sys, main, weather, city, list], a key the object      *)
(* lacks being Missing.  An entry of "list" is                             *)
(* Obj([dt, main, weather, components]).                                   *)
(***************************************************************************)
Payload(name, sys, main, weather, city, list) ==
    [name |-> name, sys |-> sys, main |-> main, weather |-> weather, city |-> city, list |-> list]

Entry(dt, main, weather, components) ==
    Obj([dt |-> dt, main |-> main, weather |-> weather, components |-> components])

\* datetime.fromtimestamp(dt).strftime("%Y-%m-%d %H:%M"): the local time of the
\* timestamp, written here as a text that differs for different timestamps
strftime(dt) == <<"T">> \o IntStr(dt)

\* the place of a current-weather summary
WeatherPlace(name, country) == Strip(name \o <<",", " ">> \o country, {",", " "})

format_weather_short(j) ==
    LET name == IF Tag(j.name) \in {"missing", "null"} THEN <<>> ELSE Render(j.name)
        country == IF Tag(j.sys) = "missing" \/ Tag(Field(Val(j.sys), "country")) = "missing" THEN <<>>
                   ELSE Render(Field(Val(j.sys), "country"))
        place == WeatherPlace(name, country)
        temp == IF Tag(j.main) = "missing" \/ Tag(Field(Val(j.main), "temp")) = "missing" THEN Render(Null)
                ELSE Render(Field(Val(j.main), "temp"))
        first == Val(j.weather)[1]
        desc == IF Tag(j.weather) = "missing" \/ Tag(Field(Val(first), "description")) = "missing" THEN <<>>
                ELSE Render(Field(Val(first), "description"))
    IN  IF Tag(j.sys) \notin {"missing", "obj"} THEN Raise("AttributeError")
        ELSE IF Tag(j.main) \notin {"missing", "obj"} THEN Raise("AttributeError")
        ELSE IF Tag(j.weather) \notin {"missing", "list"} THEN Raise("TypeError")
        ELSE IF Tag(j.weather) = "list" /\ Val(j.weather) = <<>> THEN Raise("IndexError")
        ELSE IF Tag(j.weather) = "list" /\ Tag(first) # "obj" THEN Raise("AttributeError")
        ELSE Return(place \o <<":", " ">> \o temp \o <<"deg", "C", ",", " ">> \o desc)

\* the first exception of a sequence of results, or the texts joined by newlines
JoinLines(header, results) ==
    IF \E i \in 1..Len(results) : results[i].kind = "raise"
    THEN results[CHOOSE i \in 1..Len(results) :
                    /\ results[i].kind = "raise"
                    /\ \A k \in 1..(i - 1) : results[k].kind # "raise"]
    ELSE Return(Join(<<header>> \o [i \in 1..Len(results) |-> results[i].text], <<"\n">>))

\* one line of the 5-day forecast summary
ForecastLine(entry) ==
    LET e == Val(entry)
    IN  IF Tag(e.dt) = "missing" THEN Raise("KeyError")
        ELSE IF Tag(e.main) = "missing" \/ Tag(Field(Val(e.main), "temp")) = "missing" THEN Raise("KeyError")
        ELSE IF Tag(e.weather) = "missing" THEN Raise("KeyError")
        ELSE IF Val(e.weather) = <<>> THEN Raise("IndexError")
        ELSE IF Tag(Field(Val(Val(e.weather)[1]), "description")) = "missing" THEN Raise("KeyError")
        ELSE Return(strftime(Val(e.dt)) \o <<": ">> \o Render(Field(Val(e.main), "temp")) \o <<"deg", "C", ", ">>
                    \o Render(Field(Val(Val(e.weather)[1]), "description")))

\* the entries a formatter walks: j.get("list", [])[:limit]
Slots(j, limit) == SliceTo(IF Tag(j.list) = "missing" THEN <<>> ELSE Val(j.list), limit)

format_forecast5_short(j, limit) ==
    LET city == IF Tag(j.city) = "missing" \/ Tag(Field(Val(j.city), "name")) = "missing" THEN <<"Unknown">>
                ELSE Render(Field(Val(j.city), "name"))
        header == <<"5-day / 3-hour forecast for ">> \o city \o <<" (first ">> \o IntStr(limit)
                  \o <<" slots):">>
        entries == Slots(j, limit)
    IN  IF Tag(j.city) \notin {"missing", "obj"} THEN Raise("AttributeError")
        ELSE IF Tag(j.list) \notin {"missing", "list"} THEN Raise("TypeError")
        ELSE JoinLines(header, [i \in 1..Len(entries) |-> ForecastLine(entries[i])])

\* the pollutants the summaries report, in the order they report them
Pollutants == <<"pm2_5", "pm10", "no2", "o3", "so2", "co", "nh3">>

\* a "components" object is the sequence of its [key, value] members, in payload order
HasKey(comps, k) == \E i \in 1..Len(comps) : comps[i].key = k

Lookup(comps, k) == comps[CHOOSE i \in 1..Len(comps) : comps[i].key = k].value

\* payload-order variant of PresentPollutants: walks the payload's own keys
PresentPollutantsPayloadOrder(comps) ==
    LET keys == [i \in 1..Len(comps) |-> comps[i].key]
        known(k) == \E i \in 1..Len(Pollutants) : Pollutants[i] = k
    IN  SelectSeq(keys, known)

\* for comp in [...]: if comp in comps
PresentPollutants(comps) ==
    LET present(k) == HasKey(comps, k)
    IN  SelectSeq(Pollutants, present)

\* the "K=v" parts of an air-quality summary, or the exception formatting one raises
PollutantParts(comps) ==
    LET ks == PresentPollutants(comps)
    IN  IF \E i \in 1..Len(ks) : Tag(Lookup(comps, ks[i])) \notin {"num", "int"}
        THEN Raise("TypeError")
        ELSE Return(Join([i \in 1..Len(ks) |->
                             <<Upper(ks[i]), "=">> \o Fmt2f(Val(Lookup(comps, ks[i])))], <<", ">>))

\* the body of the try block of format_air_pollution_current
AirCurrentBody(j) ==
    IF Tag(j.list) \notin {"missing", "list"} THEN Raise("TypeError")
    ELSE IF Tag(j.list) = "missing" \/ Val(j.list) = <<>> THEN Raise("IndexError")
    ELSE LET item == Val(Val(j.list)[1])
         IN  IF Tag(item.main) = "missing" \/ Tag(Field(Val(item.main), "aqi")) = "missing" THEN Raise("KeyError")
             ELSE IF Tag(item.components) = "missing" THEN Raise("KeyError")
             ELSE IF PollutantParts(Val(item.components)).kind = "raise"
                  THEN PollutantParts(Val(item.components))
             ELSE Return(<<"AQI: ">> \o RenderInt(Field(Val(item.main), "aqi")) \o <<". Components: ">>
                         \o PollutantParts(Val(item.components)).text)

format_air_pollution_current(j) ==
    IF AirCurrentBody(j).kind = "raise" THEN Return(<<"Unable to parse air pollution data">>)
    ELSE AirCurrentBody(j)

\* one line of the air-quality forecast summary
AirForecastLine(entry) ==
    LET e == Val(entry)
    IN  IF Tag(e.dt) = "missing" THEN Raise("KeyError")
        ELSE IF Tag(e.main) = "missing" \/ Tag(Field(Val(e.main), "aqi")) = "missing" THEN Raise("KeyError")
        ELSE IF Tag(e.components) = "missing" THEN Raise("KeyError")
        ELSE IF PollutantParts(Val(e.components)).kind = "raise" THEN PollutantParts(Val(e.components))
        ELSE Return(strftime(Val(e.dt)) \o <<" -- AQI ">> \o RenderInt(Field(Val(e.main), "aqi")) \o <<": ">>
                    \o PollutantParts(Val(e.components)).text)

format_air_pollution_forecast(j, limit) ==
    LET entries == Slots(j, limit)
    IN  IF Tag(j.list) \notin {"missing", "list"} THEN Raise("TypeError")
        ELSE JoinLines(<<"Air pollution forecast:">>,
                       [i \in 1..Len(entries) |-> AirForecastLine(entries[i])])

(***************************************************************************)
(* Payloads the formatters are applied to.                                 *)
(***************************************************************************)
London == <<"L", "o", "n", "d", "o", "n">>

GB == <<"G", "B">>

NameValues == {Missing, Null, Str(London)}

SysValues == {Missing, Null, Obj([country |-> Missing]), Obj([country |-> Str(GB)])}

MainValues == {Missing, Obj([temp |-> Missing]), Obj([temp |-> Num(152)])}

WeatherValues == {Missing, List(<<>>), List(<<Obj([description |-> Missing])>>),
                  List(<<Obj([description |-> Str(<<"clear sky">>)])>>)}

WeatherPayloads ==
    {Payload(n, s, m, w, Missing, Missing) :
        n \in NameValues, s \in SysValues, m \in MainValues, w \in WeatherValues}

\* every sequence over S of length at most n
SeqsUpTo(S, n) == UNION {[1..k -> S] : k \in 0..n}

\* a well-formed forecast entry with timestamp dt
ForecastEntry(dt) ==
    Entry(IntVal(dt), Obj([temp |-> Num(100 + dt)]),
          List(<<Obj([description |-> Str(<<"rain">>)])>>), Missing)

\* well-formed: every key the forecast formatter reads is there
GoodForecastEntries == {ForecastEntry(1), ForecastEntry(2)}

ForecastEntries ==
    GoodForecastEntries \cup {Entry(Missing, Obj([temp |-> Num(90)]), List(<<>>), Missing)}

CityValues == {Missing, Obj([name |-> Str(<<"London">>)])}

ForecastPayloads ==
    {Payload(Missing, Missing, Missing, Missing, c, l) :
        c \in CityValues,
        l \in {Missing} \cup {List(s) : s \in SeqsUpTo(ForecastEntries, MaxEntries)}}

\* pollutant keys of a provider payload; "no" is a key the summaries do not report
ComponentKeys == {"co", "pm2_5", "no", "o3"}

\* concentrations in thousandths
ComponentValue(k) == CASE k = "co" -> Num(500)
                       [] k = "pm2_5" -> Num(1234)
                       [] k = "no" -> Num(10)
                       [] OTHER -> Num(68129)

\* the components objects: every order of every choice of at most MaxComps keys
ComponentObjects ==
    {[i \in 1..Len(ks) |-> [key |-> ks[i], value |-> ComponentValue(ks[i])]] :
        ks \in {s \in SeqsUpTo(ComponentKeys, MaxComps) :
                   \A a, b \in 1..Len(s) : a # b => s[a] # s[b]}}

AirEntry(dt, aqi, comps) == Entry(IntVal(dt), Obj([aqi |-> IntVal(aqi)]), Missing, Obj(comps))

AirCurrentPayloads ==
    {Payload(Missing, Missing, Missing, Missing, Missing, l) :
        l \in {Missing, List(<<>>),
               List(<<Entry(IntVal(1), Missing, Missing, Obj(<<>>))>>),
               List(<<AirEntry(1, 2, <<[key |-> "co", value |-> Null]>>)>>)}
              \cup {List(<<AirEntry(1, 2, c)>>) : c \in ComponentObjects}}

AirForecastEntries ==
    {AirEntry(1, 2, <<[key |-> "co", value |-> Num(500)], [key |-> "pm2_5", value |-> Num(1234)]>>),
     AirEntry(2, 3, <<[key |-> "no", value |-> Num(10)]>>),
     Entry(Missing, Obj([aqi |-> IntVal(1)]), Missing, Obj(<<>>))}

AirForecastPayloads ==
    {Payload(Missing, Missing, Missing, Missing, Missing, List(s)) :
        s \in SeqsUpTo(AirForecastEntries, MaxEntries)}

Payloads == WeatherPayloads \cup ForecastPayloads \cup AirCurrentPayloads \cup AirForecastPayloads

\* the default of the limit and slots arguments
DefaultLimit == 5

Limits == ((0 - MaxLimit)..MaxLimit) \cup {DefaultLimit}

(***************************************************************************)
(* The provider: what an HTTP request can end with.                        *)
(***************************************************************************)
\* the request itself fails (no connection, timeout): the get raises
NetError == [net |-> "error", status |-> 0, body |-> Missing]

Http(status, body) == [net |-> "ok", status |-> status, body |-> body]

\* a body that is no JSON
Invalid == <<"invalid", <<>>>>

\* a Python tuple
Tuple(s) == <<"tuple", s>>

Cities == {"London", "london"}

\* (lat, lon) pairs the geocoding endpoint answers with
Coords == {<<51, 0>>, <<48, 2>>}

Match(c) == Obj([lat |-> IntVal(c[1]), lon |-> IntVal(c[2])])

GeocodeResponses ==
    {NetError, Http(500, Invalid), Http(200, Invalid), Http(200, List(<<>>))}
    \cup {Http(200, List(<<Match(c)>>)) : c \in Coords}

WEATHER_URL == "data/2.5/weather"

FORECAST5_URL == "data/2.5/forecast"

AIR_POLLUTION_CURRENT_URL == "data/2.5/air_pollution"

AIR_POLLUTION_FORECAST_URL == "data/2.5/air_pollution/forecast"

Urls == {WEATHER_URL, FORECAST5_URL, AIR_POLLUTION_CURRENT_URL, AIR_POLLUTION_FORECAST_URL}

\* payloads the data endpoints answer with
ProviderPayloads(url) ==
    CASE url = WEATHER_URL ->
           {Payload(Str(London), Obj([country |-> Str(GB)]), Obj([temp |-> Num(152)]),
                    List(<<Obj([description |-> Str(<<"clear sky">>)])>>), Missing, Missing),
            Payload(Str(London), Missing, Missing, List(<<>>), Missing, Missing)}
      [] url = FORECAST5_URL ->
           {Payload(Missing, Missing, Missing, Missing, Obj([name |-> Str(<<"London">>)]),
                    List(<<ForecastEntry(1), ForecastEntry(2)>>))}
      [] OTHER ->
           {Payload(Missing, Missing, Missing, Missing, Missing,
                    List(<<AirEntry(1, 2, <<[key |-> "co", value |-> Num(500)]>>)>>))}

DataResponses(url) ==
    {NetError, Http(401, Str(<<"Invalid API key">>))}
    \cup {Http(200, Obj(p)) : p \in ProviderPayloads(url)}

(***************************************************************************)
(* Geocode resolver.                                                       *)
(***************************************************************************)
\* a key that folds the case of the city
CacheKeyFolded(city) == IF city = "london" THEN "London" ELSE city

\* the key a city is cached under: the literal string
CacheKey(city) == city

\* city in _geocode_cache
CacheHit(c, city) == CacheKey(city) \in DOMAIN c

\* the exception the resolver raises on a response, "" when it raises none
GeocodeRaises(resp) ==
    IF resp.net = "error" THEN "RequestError"
    ELSE IF resp.status >= 400 THEN "HTTPStatusError"
    ELSE IF Tag(resp.body) = "invalid" THEN "JSONDecodeError"
    ELSE IF Val(resp.body) # <<>> /\ Tag(Field(Val(Val(resp.body)[1]), "lat")) = "missing" THEN "KeyError"
    ELSE IF Val(resp.body) # <<>> /\ Tag(Field(Val(Val(resp.body)[1]), "lon")) = "missing" THEN "KeyError"
    ELSE ""

\* what the resolver returns on a response it does not raise on
GeocodeCoords(resp) ==
    IF Val(resp.body) = <<>> THEN Null
    ELSE Tuple(<<Val(Field(Val(Val(resp.body)[1]), "lat")), Val(Field(Val(Val(resp.body)[1]), "lon"))>>)

\* a resolver that also remembers that a city has no match
CacheAfterGeocodeNegative(c, city, resp) ==
    IF GeocodeRaises(resp) # "" THEN c
    ELSE (CacheKey(city) :> GeocodeCoords(resp)) @@ c

\* the cache after the resolver has handled a response
CacheAfterGeocode(c, city, resp) ==
    IF GeocodeRaises(resp) # "" \/ Val(resp.body) = <<>> THEN c
    ELSE (CacheKey(city) :> GeocodeCoords(resp)) @@ c

(***************************************************************************)
(* Tool surface.  An invocation is                                         *)
(*   pc       "idle", "geocoding" (awaits the geocoding response),         *)
(*            "fetching" (awaits the data response) or "done"              *)
(*   tool, city, forecast, limit   the call and its arguments              *)
(*   coords   what geocode_city returned, while the tool holds it          *)
(*   hit      geocode_city answered from the cache (while the tool runs)   *)
(*   geo      how geocode_city ended: "coords" (a coordinate), "empty"     *)
(*            (None: no match) or "error" (it raised)                      *)
(*   result   what the tool function ended with                            *)
(***************************************************************************)
Invocations == 1..MaxInv

Variants == {"stdio", "http"}

\* src/mcp_server.py registers three tools, src/http/mcp_server.py two
Tools(v) == IF v = "stdio" THEN {"get_weather", "get_forecast_5d", "get_air_pollution"}
            ELSE {"get_weather", "get_air_pollution"}

\* the forecast and limit (slots) arguments a tool is called with
ToolArgs(tool) ==
    CASE tool = "get_weather" -> {[forecast |-> FALSE, limit |-> DefaultLimit]}
      [] tool = "get_forecast_5d" -> {[forecast |-> FALSE, limit |-> l] : l \in {1, DefaultLimit}}
      [] OTHER -> {[forecast |-> f, limit |-> DefaultLimit] : f \in BOOLEAN}

IdleInvocation ==
    [pc |-> "idle", tool |-> "", city |-> "", forecast |-> FALSE, limit |-> DefaultLimit,
     coords |-> Missing, hit |-> FALSE, geo |-> "none", result |-> NoResult]

\* an invocation between its call and its return
InFlight(rec) == rec.pc \in {"geocoding", "fetching"}

\* "not coords" of a tuple that is not empty is False
FalsyEmptyTupleOnly(x) == Tag(x) = "tuple" /\ Val(x) = <<>>

\* not coords
Falsy(x) == Tag(x) = "null" \/ (Tag(x) = "tuple" /\ Val(x) = <<>>)

ResolveError(city) == Return(<<"Could not resolve city '", city, "'">>)

ToolUrl(rec) ==
    CASE rec.tool = "get_weather" -> WEATHER_URL
      [] rec.tool = "get_forecast_5d" -> FORECAST5_URL
      [] OTHER -> IF rec.forecast THEN AIR_POLLUTION_FORECAST_URL ELSE AIR_POLLUTION_CURRENT_URL

FailedPrefix(rec) ==
    CASE rec.tool = "get_weather" -> "Weather API failed: "
      [] rec.tool = "get_forecast_5d" -> "Forecast API failed: "
      [] OTHER -> "Air Pollution API failed: "

ToolFormat(rec, j) ==
    CASE rec.tool = "get_weather" -> format_weather_short(j)
      [] rec.tool = "get_forecast_5d" -> format_forecast5_short(j, rec.limit)
      [] OTHER -> IF rec.forecast THEN format_air_pollution_forecast(j, rec.limit)
                  ELSE format_air_pollution_current(j)

\* the tool function ends: its arguments and locals are gone, its result is handed
\* to the protocol layer
Returned(rec, result) ==
    [rec EXCEPT !.pc = "done", !.forecast = FALSE, !.limit = DefaultLimit, !.coords = Missing,
                !.hit = FALSE, !.result = result]

\* the requests the geocoding endpoint has received, one more for the city
GeocodeRequested(calls, city) == [calls EXCEPT ![city] = @ + 1]

\* a resolver that asks the provider again when a request fails
GeoCallsAfterErrorRetry(calls, city) == GeocodeRequested(calls, city)

\* the resolver lets a failed request propagate: no request follows it
GeoCallsAfterError(calls, city) == calls

\* the resolver raises: nothing in the tool catches it
OnGeocodeError(rec, exc) == Returned([rec EXCEPT !.geo = "error"], Raise(exc))

\* the tool from the return of geocode_city to its data request
AfterResolve(rec, coords) ==
    IF Falsy(coords) THEN Returned(rec, ResolveError(rec.city))
    ELSE [rec EXCEPT !.pc = "fetching", !.coords = coords]

\* the requests an endpoint has received, after the tool went on from geocode_city
DataCallsAfterResolve(rec, coords) ==
    IF Falsy(coords) THEN dataCalls
    ELSE [dataCalls EXCEPT ![ToolUrl(rec)] = @ + 1]

\* the tool from the data response to its end
OnDataResponse(rec, resp) ==
    IF resp.net = "error" THEN Raise("RequestError")
    ELSE IF resp.status # 200 THEN Return(<<FailedPrefix(rec)>> \o Val(resp.body))
    ELSE IF Tag(resp.body) = "invalid" THEN Raise("JSONDecodeError")
    ELSE ToolFormat(rec, Val(resp.body))

\* no formatter has been applied
FmtIdle ==
    [j |-> Payload(Missing, Missing, Missing, Missing, Missing, Missing), limit |-> DefaultLimit,
     fn |-> "none", out |-> NoResult]

GatewayInit ==
    /\ cache = [c \in {} |-> Null]
    /\ inv = [i \in Invocations |-> IdleInvocation]
    /\ geoCalls = [c \in Cities |-> 0]
    /\ dataCalls = [u \in Urls |-> 0]
    /\ overlapped = FALSE

Init ==
    /\ variant \in Variants
    /\ GatewayInit
    /\ fmt = FmtIdle

\* a call may start: the stdio server runs one blocking tool at a time, the http
\* server starts a task per call; invocations are numbered in the order they start
MayCall(i) ==
    /\ inv[i].pc = "idle"
    /\ \A k \in Invocations : k < i => inv[k].pc # "idle"
    /\ variant = "stdio" => \A k \in Invocations : ~InFlight(inv[k])

Called(i, tool, city, args) ==
    [inv[i] EXCEPT !.tool = tool, !.city = city, !.forecast = args.forecast, !.limit = args.limit]

\* a tool is called for a cached city: geocode_city returns the cached value
CallHit(i) ==
    \E tool \in Tools(variant), city \in Cities :
      \E args \in ToolArgs(tool) :
        LET rec == [Called(i, tool, city, args) EXCEPT !.hit = TRUE, !.geo = "coords"]
        IN  /\ MayCall(i)
            /\ CacheHit(cache, city)
            /\ inv' = [inv EXCEPT ![i] = AfterResolve(rec, cache[CacheKey(city)])]
            /\ dataCalls' = DataCallsAfterResolve(rec, cache[CacheKey(city)])
            /\ overlapped' = (overlapped \/ \E k \in Invocations : InFlight(inv[k]))
            /\ UNCHANGED <<variant, cache, geoCalls, fmt>>

\* a tool is called for a city that is not cached: the geocoding request goes out
CallMiss(i) ==
    \E tool \in Tools(variant), city \in Cities :
      \E args \in ToolArgs(tool) :
        /\ MayCall(i)
        /\ ~CacheHit(cache, city)
        /\ inv' = [inv EXCEPT ![i] = [Called(i, tool, city, args) EXCEPT
                                         !.pc = "geocoding"]]
        /\ geoCalls' = GeocodeRequested(geoCalls, city)
        /\ overlapped' = (overlapped \/ \E k \in Invocations : InFlight(inv[k]))
        /\ UNCHANGED <<variant, cache, dataCalls, fmt>>

\* the geocoding request fails, or its response cannot be read
GeocodeError(i) ==
    \E resp \in GeocodeResponses :
        /\ inv[i].pc = "geocoding"
        /\ GeocodeRaises(resp) # ""
        /\ inv' = [inv EXCEPT ![i] = OnGeocodeError(inv[i], GeocodeRaises(resp))]
        /\ cache' = CacheAfterGeocode(cache, inv[i].city, resp)
        /\ geoCalls' = GeoCallsAfterError(geoCalls, inv[i].city)
        /\ UNCHANGED <<variant, dataCalls, overlapped, fmt>>

\* the geocoding response holds no match
GeocodeEmpty(i) ==
    \E resp \in GeocodeResponses :
        /\ inv[i].pc = "geocoding"
        /\ GeocodeRaises(resp) = ""
        /\ Val(resp.body) = <<>>
        /\ inv' = [inv EXCEPT ![i] = AfterResolve([inv[i] EXCEPT !.geo = "empty"], GeocodeCoords(resp))]
        /\ dataCalls' = DataCallsAfterResolve(inv[i], GeocodeCoords(resp))
        /\ cache' = CacheAfterGeocode(cache, inv[i].city, resp)
        /\ UNCHANGED <<variant, geoCalls, overlapped, fmt>>

\* the geocoding response holds a match: it is cached and the data request goes out
GeocodeMatch(i) ==
    \E resp \in GeocodeResponses :
        /\ inv[i].pc = "geocoding"
        /\ GeocodeRaises(resp) = ""
        /\ Val(resp.body) # <<>>
        /\ inv' = [inv EXCEPT ![i] = AfterResolve([inv[i] EXCEPT !.geo = "coords"], GeocodeCoords(resp))]
        /\ dataCalls' = DataCallsAfterResolve(inv[i], GeocodeCoords(resp))
        /\ cache' = CacheAfterGeocode(cache, inv[i].city, resp)
        /\ UNCHANGED <<variant, geoCalls, overlapped, fmt>>

\* the data response arrives (or the request fails) and the tool ends
DataResponse(i) ==
    \E resp \in DataResponses(ToolUrl(inv[i])) :
        /\ inv[i].pc = "fetching"
        /\ inv' = [inv EXCEPT ![i] = Returned(inv[i], OnDataResponse(inv[i], resp))]
        /\ UNCHANGED <<variant, cache, geoCalls, dataCalls, overlapped, fmt>>

Next ==
    \E i \in Invocations :
        \/ CallHit(i)
        \/ CallMiss(i)
        \/ GeocodeError(i)
        \/ GeocodeEmpty(i)
        \/ GeocodeMatch(i)
        \/ DataResponse(i)

Spec == Init /\ [][Next]_vars

(***************************************************************************)
(* The formatters on their own: a payload and a limit are drawn, and one   *)
(* formatter is applied to them.                                           *)
(***************************************************************************)
InitFmt ==
    /\ variant = "stdio"
    /\ GatewayInit
    /\ \E j \in Payloads, limit \in Limits :
          fmt = [j |-> j, limit |-> limit, fn |-> "none", out |-> NoResult]

FormatWeatherShort ==
    /\ fmt.fn = "none"
    /\ fmt' = [fmt EXCEPT !.fn = "format_weather_short", !.out = format_weather_short(fmt.j)]
    /\ UNCHANGED gatewayVars

FormatForecast5Short ==
    /\ fmt.fn = "none"
    /\ fmt' = [fmt EXCEPT !.fn = "format_forecast5_short",
                          !.out = format_forecast5_short(fmt.j, fmt.limit)]
    /\ UNCHANGED gatewayVars

FormatAirPollutionCurrent ==
    /\ fmt.fn = "none"
    /\ fmt' = [fmt EXCEPT !.fn = "format_air_pollution_current",
                          !.out = format_air_pollution_current(fmt.j)]
    /\ UNCHANGED gatewayVars

FormatAirPollutionForecast ==
    /\ fmt.fn = "none"
    /\ fmt' = [fmt EXCEPT !.fn = "format_air_pollution_forecast",
                          !.out = format_air_pollution_forecast(fmt.j, fmt.limit)]
    /\ UNCHANGED gatewayVars

NextFmt ==
    \/ FormatWeatherShort
    \/ FormatForecast5Short
    \/ FormatAirPollutionCurrent
    \/ FormatAirPollutionForecast

SpecFmt == InitFmt /\ [][NextFmt]_vars

(***************************************************************************)
(* Properties.                                                             *)
(***************************************************************************)
Started == {i \in Invocations : inv[i].pc # "idle"}

RECURSIVE SumOver(_, _)
SumOver(f, S) == IF S = {} THEN 0
                 ELSE LET x == CHOOSE y \in S : TRUE IN f[x] + SumOver(f, S \ {x})

\* the requests the geocoding endpoint and the data endpoints have received
TotalGeo == SumOver(geoCalls, Cities)

TotalData == SumOver(dataCalls, Urls)

StartsWith(text, prefix) ==
    Len(text) >= Len(prefix) /\ SubSeq(text, 1, Len(prefix)) = prefix

EndsWith(text, suffix) ==
    Len(text) >= Len(suffix) /\ SubSeq(text, Len(text) - Len(suffix) + 1, Len(text)) = suffix

\* the text before the first fragment sep (all of it when there is none)
Before(text, sep) ==
    IF \E i \in 1..Len(text) : text[i] = sep
    THEN SubSeq(text, 1, (CHOOSE i \in 1..Len(text) :
                             text[i] = sep /\ \A k \in 1..(i - 1) : text[k] # sep) - 1)
    ELSE text

RECURSIVE SplitLines(_)
\* text.split("\n")
SplitLines(text) ==
    IF \E i \in 1..Len(text) : text[i] = "\n"
    THEN <<Before(text, "\n")>> \o SplitLines(SubSeq(text, Len(Before(text, "\n")) + 2, Len(text)))
    ELSE <<text>>

\* every geocoding request answered so far was answered with a match
AllMatched == \A i \in Invocations : inv[i].geo \in {"none", "coords"}

\* C1: when the calls so far came one after the other and the provider answered
\* every geocoding request with a match, the geocoding endpoint has received exactly
\* one request for each city string that was asked for, however often it was asked
\* for (a second call with the same string is a cache hit, a different string, a
\* case variant included, is a request of its own), and a cache hit hands the tool
\* the cached coordinate.
C1_CacheCorrectness ==
    (~overlapped /\ AllMatched) =>
        /\ \A c \in Cities :
              geoCalls[c] = IF \E i \in Started : inv[i].city = c THEN 1 ELSE 0
        /\ \A i \in Invocations :
              (inv[i].hit /\ inv[i].pc = "fetching") =>
                  /\ inv[i].city \in DOMAIN cache
                  /\ inv[i].coords = cache[inv[i].city]

\* C1 witness: a city resolved by the provider, then asked for again and answered
\* from the cache
C1_Witness ==
    /\ ~overlapped
    /\ AllMatched
    /\ \E i, k \in Invocations :
          /\ i < k
          /\ inv[i].city = inv[k].city
          /\ inv[i].pc = "done" /\ inv[i].geo = "coords"
          /\ inv[k].pc = "fetching" /\ inv[k].hit

\* invocation i's geocode_city ends in this step with None or with an exception
GeocodeFailsNow(i) == inv[i].pc = "geocoding" /\ inv'[i].geo \in {"empty", "error"}

\* C2 as claimed: whenever geocode_city(city) ends with NotFound or a transport
\* failure, the cache is left unchanged and has no entry for that city.
C2_Original ==
    [][\A i \in Invocations :
          GeocodeFailsNow(i) => (cache' = cache /\ inv[i].city \notin DOMAIN cache')]_vars

\* C2 amended: whenever geocode_city(city) ends with NotFound or a transport
\* failure, that call leaves the cache unchanged; the cache has an entry for the
\* city then only if the calls overlapped and another invocation resolved the same
\* string; and a call for a string the cache has no entry for issues a geocoding
\* request.
C2_NonPoisoning ==
    [][/\ \A i \in Invocations :
             GeocodeFailsNow(i) =>
                 /\ cache' = cache
                 /\ inv[i].city \in DOMAIN cache' =>
                        /\ overlapped
                        /\ \E k \in Invocations \ {i} :
                              inv[k].city = inv[i].city /\ inv[k].geo = "coords"
       /\ \A i \in Invocations :
             (inv[i].pc = "idle" /\ inv'[i].pc # "idle" /\ inv'[i].city \notin DOMAIN cache) =>
                 /\ inv'[i].pc = "geocoding"
                 /\ geoCalls'[inv'[i].city] = geoCalls[inv'[i].city] + 1]_vars

\* C2 witness: a city whose resolution failed is asked for again, and the request
\* goes to the provider again
C2_Witness ==
    \E i, k \in Invocations :
        /\ i < k
        /\ inv[i].pc = "done" /\ inv[i].geo \in {"empty", "error"}
        /\ inv[k].city = inv[i].city
        /\ inv[k].pc = "geocoding"
        /\ geoCalls[inv[i].city] = 2

\* C3: an invocation of any tool whose geocoding yields no match has ended with
\* the result "Could not resolve city '<city>'", and the data endpoints have
\* received requests only from the invocations whose city was resolved.
C3_ResolutionError ==
    /\ \A i \in Invocations :
          inv[i].geo = "empty" =>
              /\ inv[i].pc = "done"
              /\ inv[i].result = [kind |-> "return",
                                  text |-> <<"Could not resolve city '", inv[i].city, "'">>]
    /\ TotalData = Cardinality({i \in Invocations : inv[i].geo = "coords"})

\* C3 witness: a forecast invocation and another invocation, with no match for either
C3_Witness ==
    \E i, k \in Invocations :
        /\ i # k
        /\ inv[i].geo = "empty" /\ inv[i].pc = "done" /\ inv[i].tool = "get_forecast_5d"
        /\ inv[k].geo = "empty" /\ inv[k].pc = "done" /\ inv[k].tool # "get_forecast_5d"

\* C4 as claimed: every tool invocation ends by returning a value; no exception
\* leaves a tool function.
C4_ToolsAlwaysReturn ==
    \A i \in Invocations : inv[i].pc = "done" => inv[i].result.kind = "return"

\* C5 as claimed: no formatter raises, whatever the payload.
C5_FormattersNeverRaise == fmt.fn # "none" => fmt.out.kind = "return"

\* C6 as claimed: an entry of the cache is never removed and never replaced by a
\* different coordinate.
C6_WriteOnce ==
    [][\A c \in DOMAIN cache : c \in DOMAIN cache' /\ cache'[c] = cache[c]]_vars

\* the payload has a non-empty "name" / a "country" under "sys"
HasName(j) == Tag(j.name) = "str" /\ Val(j.name) # <<>>

HasCountry(j) == Tag(j.sys) = "obj" /\ Tag(Field(Val(j.sys), "country")) = "str"

\* C7 as claimed: a current-weather summary starts with "<name>, <country>: " when
\* both are in the payload; when one or both are missing, the summary does not
\* start with ", ", its place part does not end with ", ", and with both missing
\* it does not start with ": ".
C7_NoDanglingSeparators ==
    (fmt.fn = "format_weather_short" /\ fmt.out.kind = "return") =>
        IF HasName(fmt.j) /\ HasCountry(fmt.j)
        THEN StartsWith(fmt.out.text,
                        Val(fmt.j.name) \o <<",", " ">> \o Val(Val(fmt.j.sys).country) \o <<":", " ">>)
        ELSE /\ ~StartsWith(fmt.out.text, <<",", " ">>)
             /\ ~EndsWith(Before(fmt.out.text, ":"), <<",", " ">>)
             /\ (~HasName(fmt.j) /\ ~HasCountry(fmt.j)) => ~StartsWith(fmt.out.text, <<":", " ">>)

\* a forecast payload every entry of which has the keys the formatter reads
WellFormedForecast(j) ==
    /\ Tag(j.list) = "list"
    /\ \A i \in 1..Len(Val(j.list)) : Val(j.list)[i] \in GoodForecastEntries

\* the number of entries a limit of slots selects from n entries
FirstSlots(n, slots) == IF slots >= n THEN n ELSE IF slots < 0 THEN 0 ELSE slots

\* C8 as claimed: for a well-formed forecast payload with n entries and any integer
\* slots, the summary is one header line followed by one line for each of the first
\* slots entries (all n when slots exceeds n), in the order of the payload.
C8_SlotLimiting ==
    (fmt.fn = "format_forecast5_short" /\ WellFormedForecast(fmt.j)) =>
        /\ fmt.out.kind = "return"
        /\ LET lines == SplitLines(fmt.out.text)
               entries == Val(fmt.j.list)
               k == FirstSlots(Len(entries), fmt.limit)
           IN  /\ Len(lines) = 1 + k
               /\ \A i \in 1..k :
                     i + 1 <= Len(lines) => lines[i + 1] = ForecastLine(entries[i]).text

\* the labels of the fixed pollutants and their keys, in the order of the summaries
FixedLabels == <<"PM2_5", "PM10", "NO2", "O3", "SO2", "CO", "NH3">>

FixedKeys == <<"pm2_5", "pm10", "no2", "o3", "so2", "co", "nh3">>

\* the labels of a summary, in the order they appear: the fragments before an "="
Labels(text) ==
    LET isLabel(i) == i < Len(text) /\ text[i + 1] = "="
        idx == {i \in 1..Len(text) : isLabel(i)}
        nth(n) == CHOOSE i \in idx : Cardinality({k \in idx : k < i}) = n - 1
    IN  [n \in 1..Cardinality(idx) |-> text[nth(n)]]

LabelRank(label) ==
    IF \E n \in 1..Len(FixedLabels) : FixedLabels[n] = label
    THEN CHOOSE n \in 1..Len(FixedLabels) : FixedLabels[n] = label
    ELSE 0

\* the payload is a current-air-quality payload whose first item has an index and
\* components with numeric values
WellFormedAir(j) ==
    /\ Tag(j.list) = "list"
    /\ Val(j.list) # <<>>
    /\ LET item == Val(Val(j.list)[1])
       IN  /\ Tag(item.main) = "obj"
           /\ Tag(item.components) = "obj"
           /\ \A i \in 1..Len(Val(item.components)) :
                 Tag(Val(item.components)[i].value) = "num"

ComponentKeysOf(j) ==
    LET comps == Val(Val(Val(j.list)[1]).components)
    IN  [i \in 1..Len(comps) |-> comps[i].key]

\* C9: the current-air-quality summary of a payload names exactly the pollutants
\* that are keys of its components and in the fixed set, once each, under their
\* uppercased labels and in the order pm2_5, pm10, no2, o3, so2, co, nh3, whatever
\* the order of the keys in the payload; components {pm2_5: 1.234, co: 0.5} give
\* "PM2_5=1.23, CO=0.50".
C9_PollutantOrdering ==
    (fmt.fn = "format_air_pollution_current" /\ WellFormedAir(fmt.j)) =>
        /\ fmt.out.kind = "return"
        /\ LET ls == Labels(fmt.out.text)
               keys == {ComponentKeysOf(fmt.j)[i] : i \in 1..Len(ComponentKeysOf(fmt.j))}
           IN  /\ {ls[n] : n \in 1..Len(ls)} =
                      {FixedLabels[n] : n \in {m \in 1..Len(FixedKeys) : FixedKeys[m] \in keys}}
               /\ \A a, b \in 1..Len(ls) : a < b => LabelRank(ls[a]) < LabelRank(ls[b])
               /\ keys = {"pm2_5", "co"} =>
                      EndsWith(fmt.out.text,
                               <<". Components: ", "PM2_5", "=", "1", ".", "2", "3", ", ",
                                 "CO", "=", "0", ".", "5", "0">>)

\* C9 witness: a summary of components whose keys come in the order co, no, pm2_5
C9_Witness ==
    /\ fmt.fn = "format_air_pollution_current"
    /\ WellFormedAir(fmt.j)
    /\ ComponentKeysOf(fmt.j) = <<"co", "no", "pm2_5">>
    /\ fmt.out.kind = "return"
    /\ Labels(fmt.out.text) = <<"PM2_5", "CO">>

PcRank(pc) == CASE pc = "idle" -> 0
                [] pc = "geocoding" -> 1
                [] pc = "fetching" -> 2
                [] OTHER -> 3

\* C10: the provider has received at most as many geocoding requests and at most
\* as many data requests as tool invocations were started; a step issues at most
\* one request, a geocoding request only as an invocation starts and a data
\* request only as an invocation moves on to fetching; and no invocation ever goes
\* back to an earlier position, so each issues at most one request of each kind.
C10_NoRetries ==
    /\ [](TotalGeo <= Cardinality(Started) /\ TotalData <= Cardinality(Started))
    /\ [][/\ \A c \in Cities : geoCalls'[c] >= geoCalls[c]
          /\ \A u \in Urls : dataCalls'[u] >= dataCalls[u]
          /\ \A i \in Invocations : PcRank(inv'[i].pc) >= PcRank(inv[i].pc)
          /\ SumOver(geoCalls', Cities) # TotalGeo =>
                 /\ SumOver(geoCalls', Cities) = TotalGeo + 1
                 /\ \E i \in Invocations : inv[i].pc = "idle" /\ inv'[i].pc = "geocoding"
          /\ SumOver(dataCalls', Urls) # TotalData =>
                 /\ SumOver(dataCalls', Urls) = TotalData + 1
                 /\ \E i \in Invocations : inv[i].pc # "fetching" /\ inv'[i].pc = "fetching"]_vars

\* C10 witness: invocations that raced on the same uncached city have each issued
\* a geocoding request and a data request, and all have ended
C10_Witness ==
    /\ overlapped
    /\ \E c \in Cities : geoCalls[c] = Cardinality(Invocations)
    /\ TotalData = Cardinality(Invocations)
    /\ \A i \in Invocations : inv[i].pc = "done"

=============================================================================
